---- MODULE Spec2Model ----
(***************************************************************************)
(* A model of the DuckDB connection manager (src/src/duckdb_manager.py)    *)
(* and of the tool dispatcher built on it (src/src/main.py).               *)
(*                                                                         *)
(* The embedded engine is an external collaborator: it is modelled by what *)
(* the SQL texts of the source ask of it (catalog listings with their      *)
(* WHERE / ORDER BY clauses, row counts, COPY ... FROM / TO), over a small   *)
(* persistent database file.  Every engine call can also fail for a reason *)
(* outside the program (I/O, unsupported function): the operations take    *)
(* the set of failing engine calls as an input.                            *)
(***************************************************************************)
EXTENDS Integers, Sequences, FiniteSets, TLC

(***************************************************************************)
(* Bounds of the model.                                                    *)
(***************************************************************************)
\* the database holds at most MaxRows rows in total, a CSV file at most
\* MaxRows data lines
MaxRows == 2
\* at most MaxHandles connection handles are opened in one behaviour
MaxHandles == 2
\* the engine calls of one operation that can be made to fail are the
\* first MaxFaultIdx ones
MaxFaultIdx == 6

\* the object names a database file can hold, in alphabetical order, and
\* those the operations of the model are called with
NameSeq == <<"a", "b", "c", "d", "e", "f", "g", "h", "i", "j", "k", "l">>
AllNames == {NameSeq[i] : i \in DOMAIN NameSeq}
Names == {"a", "b"}
NameRank == [n \in AllNames |-> CHOOSE i \in DOMAIN NameSeq : NameSeq[i] = n]
\* file paths
Paths == {"f.csv"}
\* the integer the rows of the model hold (an INSERT stores it, the lines of
\* a CSV file spell it)
Vals == {1}

\* self._connection is None
NoneH == 0

(***************************************************************************)
(* Values of result rows: Python ints, strs and None.                      *)
(***************************************************************************)
IntV(n) == [ty |-> "int", v |-> n, s |-> ""]
StrV(x) == [ty |-> "str", v |-> 0, s |-> x]
NullV == [ty |-> "none", v |-> 0, s |-> ""]

\* the decimal text of the small integers of the model
Digits == <<"0", "1", "2", "3", "4", "5", "6", "7", "8", "9">>
IntText(n) == Digits[n + 1]
IsIntText(x) == \E n \in 0..9 : Digits[n + 1] = x
TextInt(x) == CHOOSE n \in 0..9 : Digits[n + 1] = x

(***************************************************************************)
(* Column descriptors, as information_schema.columns reports them.         *)
(***************************************************************************)
ColId == [column_name |-> "id", data_type |-> "INTEGER",
          is_nullable |-> "NO", column_default |-> ""]
ColName == [column_name |-> "name", data_type |-> "VARCHAR",
            is_nullable |-> "YES", column_default |-> ""]
\* the column list a CREATE TABLE of the model declares: the declaration
\* order is not the alphabetical order of the column names
ColumnLists == {<<ColName, ColId>>}
\* the objects of the database file
NoObject == [kind |-> "none", cols |-> <<>>, rows |-> <<>>, base |-> ""]
TableObject(cols, rows) ==
    [kind |-> "table", cols |-> cols, rows |-> rows, base |-> ""]
ViewObject(base, cols) ==
    [kind |-> "view", cols |-> cols, rows |-> <<>>, base |-> base]

\* a file: absent, or a CSV / PARQUET file of lines of text fields (a CSV
\* header is its first line); the CSV files of the model are comma separated
NoFile == [fmt |-> "none", lines |-> <<>>]
FileOf(fmt, lines) == [fmt |-> fmt, lines |-> lines]

RECURSIVE SumLen(_, _)
SumLen(db, S) ==
    IF S = {} THEN 0
    ELSE LET n == CHOOSE n \in S : TRUE
         IN Len(db[n].rows) + SumLen(db, S \ {n})
TotalRows(db) == SumLen(db, DOMAIN db)

\* the elements of the finite set S as a sequence, ascending by key[x]
RECURSIVE OrderBy(_, _)
OrderBy(S, key) ==
    IF S = {} THEN <<>>
    ELSE LET x == CHOOSE x \in S : \A y \in S : key[x] <= key[y]
         IN <<x>> \o OrderBy(S \ {x}, key)

VARIABLES
    connection,   \* DuckDBManager._connection: NoneH or a handle
    opened,       \* the number of handles duckdb.connect has returned
    live,         \* the handles opened and not closed
    db,           \* the database file: the object of every name
    files,        \* the file system: the content of every path
    trace,        \* the engine calls of the last operation, in order, each
                  \* with the handle it ran on and whether it succeeded
    ret,          \* the last operation: its name, who called the manager
                  \* (via), its arguments, what the manager returned or raised
    env,          \* what the last tool or view returned to the transport
    db_manager,   \* the global _db_manager: NoManager or the instance
    created,      \* the number of DuckDBManager instances constructed
    threads       \* of every thread that calls the manager: where it stands
                  \* in its operation (pc) and the handle it holds (h)

vars == <<connection, opened, live, db, files, trace, ret, env, db_manager, created,
          threads>>

(***************************************************************************)
(* The engine: what one conn.execute(sql) does to the database file and    *)
(* what its result holds (description, rows).                              *)
(***************************************************************************)
EngineOk(d, f, description, rows) ==
    [ok |-> TRUE, exc |-> "", db |-> d, files |-> f,
     description |-> description, rows |-> rows]
EngineError(d, f, exc) ==
    [ok |-> FALSE, exc |-> exc, db |-> d, files |-> f,
     description |-> <<>>, rows |-> <<>>]

ColumnNames(cols) == [i \in 1..Len(cols) |-> cols[i].column_name]

\* the rows a SELECT * FROM t reads: a view reads its base table
Readable(d, t) ==
    \/ d[t].kind = "table"
    \/ /\ d[t].kind = "view"
       /\ d[d[t].base].kind = "table"
       /\ d[d[t].base].cols = d[t].cols
RowsOf(d, t) == IF d[t].kind = "view" THEN d[d[t].base].rows ELSE d[t].rows

\* the same listing without its ORDER BY table_name: the names come in an
\* order of the engine's choosing (here the reverse one)
CatalogNamesUnordered(d, ty) ==
    LET kind == IF ty = "BASE TABLE" THEN "table" ELSE "view"
        S == {n \in DOMAIN d : d[n].kind = kind}
        sorted == OrderBy(S, [n \in AllNames |-> 0 - NameRank[n]])
    IN [i \in 1..Len(sorted) |-> <<StrV(sorted[i])>>]

\* information_schema.tables WHERE table_schema = 'main' AND table_type = ty
\* ORDER BY table_name
CatalogNames(d, ty) ==
    LET kind == IF ty = "BASE TABLE" THEN "table" ELSE "view"
        S == {n \in DOMAIN d : d[n].kind = kind}
        sorted == OrderBy(S, NameRank)
    IN [i \in 1..Len(sorted) |-> <<StrV(sorted[i])>>]

\* information_schema.columns WHERE table_schema = 'main' AND table_name = t
\* ORDER BY ordinal_position
CatalogColumns(d, t) ==
    LET cols == d[t].cols
        S == {[ordinal_position |-> i, col |-> cols[i]] : i \in 1..Len(cols)}
        key == [x \in S |-> x.ordinal_position]
        sorted == OrderBy(S, key)
    IN [i \in 1..Len(sorted) |->
          <<StrV(sorted[i].col.column_name), StrV(sorted[i].col.data_type),
            StrV(sorted[i].col.is_nullable),
            IF sorted[i].col.column_default = "" THEN NullV
            ELSE StrV(sorted[i].col.column_default)>>]

\* CSV text of a value, and the value a CSV field is read as in a column
FieldText(v) == IF v.ty = "int" THEN IntText(v.v) ELSE v.s
FieldFits(col, x) == col.data_type = "VARCHAR" \/ IsIntText(x)
FieldValue(col, x) ==
    IF col.data_type = "INTEGER" THEN IntV(TextInt(x)) ELSE StrV(x)
LineFits(cols, line) ==
    /\ Len(line) = Len(cols)
    /\ \A i \in 1..Len(cols) : FieldFits(cols[i], line[i])
LineRow(cols, line) == [i \in 1..Len(cols) |-> FieldValue(cols[i], line[i])]
RowLine(row) == [i \in 1..Len(row) |-> FieldText(row[i])]

\* the fields of a comma separated line read with delimiter delim
SplitLine(line, delim) ==
    IF delim = "," \/ Len(line) <= 1 THEN line ELSE <<"joined">>

\* the row an INSERT of the model adds: the integer v in every column
InsertRow(cols, v) ==
    [i \in 1..Len(cols) |->
        IF cols[i].data_type = "INTEGER" THEN IntV(v) ELSE StrV(IntText(v))]

(***************************************************************************)
(* The SQL texts: those the manager builds, and those a caller passes to   *)
(* execute_query / execute_statement.                                      *)
(***************************************************************************)
\* one SQL text: its kind, the object t it names, and what else it states
Sql(kind, t) ==
    [kind |-> kind, t |-> t, ty |-> "", alias |-> "", file |-> "",
     options |-> <<>>, fmt |-> "", v |-> 0, cols |-> <<>>, base |-> "",
     aliases |-> <<>>]

ListTablesSql == [Sql("list", "") EXCEPT !.ty = "BASE TABLE"]
ListViewsSql == [Sql("list", "") EXCEPT !.ty = "VIEW"]
DescribeSql(t) == Sql("describe", t)
CountSql(t, alias) == [Sql("count", t) EXCEPT !.alias = alias]
SizeSql(t) == Sql("size", t)
CopyFromSql(t, file, options) ==
    [Sql("copy_from", t) EXCEPT !.file = file, !.options = options]
CopyToSql(t, file, fmt) == [Sql("copy_to", t) EXCEPT !.file = file, !.fmt = fmt]

SelectSql(t) == Sql("select_all", t)
\* SELECT c1 AS aliases[1], c2 AS aliases[2], ... FROM t, the c's being the
\* columns of t in their order
SelectAsSql(t, aliases) == [Sql("select_as", t) EXCEPT !.aliases = aliases]
InsertSql(t, v) == [Sql("insert", t) EXCEPT !.v = v]
DeleteSql(t) == Sql("delete", t)
CreateTableSql(t, cols) == [Sql("create_table", t) EXCEPT !.cols = cols]
DropTableSql(t) == Sql("drop_table", t)
CreateViewSql(t, base) == [Sql("create_view", t) EXCEPT !.base = base]
DropViewSql(t) == Sql("drop_view", t)
InvalidSql == Sql("invalid", "")

DdlKinds == {"create_table", "drop_table", "create_view", "drop_view"}

\* the texts passed to execute_query, and those passed to execute_statement
\* (a SELECT among them: its first value need not be an integer)
UserQueries == {InvalidSql} \cup {SelectSql(t) : t \in Names}
UserStatements ==
    {InvalidSql}
    \cup {SelectSql(t) : t \in Names}
    \cup {InsertSql(t, v) : t \in Names, v \in Vals}
    \cup {DeleteSql(t) : t \in Names}
    \cup {CreateTableSql(t, cols) : t \in Names, cols \in ColumnLists}
    \cup {DropTableSql(t) : t \in Names}
    \cup {CreateViewSql(p[1], p[2]) : p \in {x \in Names \X Names : x[1] # x[2]}}
    \cup {DropViewSql(t) : t \in Names}

NoTable == "Catalog Error: Table does not exist"

\* COPY t FROM 'file' (FORMAT CSV, options): the lines of the file, less the
\* header line when HEADER is given, are appended as rows; nothing is
\* appended when a line does not fit the table
\* a COPY ... FROM that keeps the lines it could convert when a later line
\* does not fit the table
CopyFromPartial(d, f, sql) ==
    LET header == \E i \in 1..Len(sql.options) :
                      sql.options[i] = [key |-> "HEADER", val |-> ""]
        delims == {sql.options[i].val : i \in
                     {j \in 1..Len(sql.options) : sql.options[j].key = "DELIMITER"}}
        delim == IF delims = {} THEN "," ELSE CHOOSE x \in delims : TRUE
        all == f[sql.file].lines
        data == IF header /\ Len(all) > 0 THEN Tail(all) ELSE all
        lines == [i \in 1..Len(data) |-> SplitLine(data[i], delim)]
        cols == d[sql.t].cols
        fit == SelectSeq(lines, LAMBDA l : LineFits(cols, l))
        kept == [d EXCEPT ![sql.t].rows =
                    @ \o [i \in 1..Len(fit) |-> LineRow(cols, fit[i])]]
    IN IF d[sql.t].kind # "table" THEN EngineError(d, f, NoTable)
       ELSE IF f[sql.file].fmt # "csv"
       THEN EngineError(d, f, "IO Error: cannot read file")
       ELSE IF \E i \in 1..Len(lines) : ~LineFits(cols, lines[i])
       THEN EngineError(kept, f, "Conversion Error: line does not fit the table")
       ELSE EngineOk(kept, f, <<"Count">>, << <<IntV(Len(lines))>> >>)

CopyFrom(d, f, sql) ==
    LET header == \E i \in 1..Len(sql.options) :
                      sql.options[i] = [key |-> "HEADER", val |-> ""]
        delims == {sql.options[i].val : i \in
                     {j \in 1..Len(sql.options) : sql.options[j].key = "DELIMITER"}}
        delim == IF delims = {} THEN "," ELSE CHOOSE x \in delims : TRUE
        all == f[sql.file].lines
        data == IF header /\ Len(all) > 0 THEN Tail(all) ELSE all
        lines == [i \in 1..Len(data) |-> SplitLine(data[i], delim)]
        cols == d[sql.t].cols
    IN IF d[sql.t].kind # "table" THEN EngineError(d, f, NoTable)
       ELSE IF f[sql.file].fmt # "csv"
       THEN EngineError(d, f, "IO Error: cannot read file")
       ELSE IF \E i \in 1..Len(lines) : ~LineFits(cols, lines[i])
       THEN EngineError(d, f, "Conversion Error: line does not fit the table")
       ELSE EngineOk(
              [d EXCEPT ![sql.t].rows =
                  @ \o [i \in 1..Len(lines) |-> LineRow(cols, lines[i])]],
              f, <<"Count">>, << <<IntV(Len(lines))>> >>)

\* a COPY ... TO (FORMAT CSV) without HEADER: the file starts with the first
\* row
CopyToNoHeader(d, f, sql) ==
    LET rows == RowsOf(d, sql.t)
        body == [i \in 1..Len(rows) |-> RowLine(rows[i])]
    IN IF ~Readable(d, sql.t) THEN EngineError(d, f, NoTable)
       ELSE EngineOk(d,
              [f EXCEPT ![sql.file] =
                  FileOf(sql.fmt, IF sql.fmt = "csv" THEN body ELSE <<>>)],
              <<"Count">>, << <<IntV(Len(rows))>> >>)

\* COPY t TO 'file' (FORMAT CSV, HEADER) or (FORMAT PARQUET); the program
\* never reads a PARQUET file, whose content is left out
CopyTo(d, f, sql) ==
    LET rows == RowsOf(d, sql.t)
        body == [i \in 1..Len(rows) |-> RowLine(rows[i])]
        lines == IF sql.fmt = "csv"
                 THEN <<ColumnNames(d[sql.t].cols)>> \o body ELSE <<>>
    IN IF ~Readable(d, sql.t) THEN EngineError(d, f, NoTable)
       ELSE EngineOk(d, [f EXCEPT ![sql.file] = FileOf(sql.fmt, lines)],
                     <<"Count">>, << <<IntV(Len(rows))>> >>)

\* what the engine does with one SQL text when nothing outside fails
EngineRun(d, f, sql) ==
    CASE sql.kind = "invalid" ->
            EngineError(d, f, "Parser Error: syntax error")
      [] sql.kind = "list" ->
            EngineOk(d, f, <<"table_name">>, CatalogNames(d, sql.ty))
      [] sql.kind = "describe" ->
            EngineOk(d, f,
                     <<"column_name", "data_type", "is_nullable", "column_default">>,
                     CatalogColumns(d, sql.t))
      [] sql.kind = "count" ->
            IF Readable(d, sql.t)
            THEN EngineOk(d, f, <<sql.alias>>, << <<IntV(Len(RowsOf(d, sql.t)))>> >>)
            ELSE EngineError(d, f, NoTable)
      [] sql.kind = "size" ->
            IF d[sql.t].kind # "none"
            THEN EngineOk(d, f, <<"table_size">>, << <<StrV("0 bytes")>> >>)
            ELSE EngineError(d, f, NoTable)
      [] sql.kind = "select_all" ->
            IF Readable(d, sql.t)
            THEN EngineOk(d, f, ColumnNames(d[sql.t].cols), RowsOf(d, sql.t))
            ELSE EngineError(d, f, NoTable)
      [] sql.kind = "select_as" ->
            IF Readable(d, sql.t) /\ Len(sql.aliases) = Len(d[sql.t].cols)
            THEN EngineOk(d, f, sql.aliases, RowsOf(d, sql.t))
            ELSE EngineError(d, f, "Binder Error: cannot select")
      [] sql.kind = "insert" ->
            IF d[sql.t].kind = "table"
            THEN EngineOk(
                   [d EXCEPT ![sql.t].rows = Append(@, InsertRow(d[sql.t].cols, sql.v))],
                   f, <<"Count">>, << <<IntV(1)>> >>)
            ELSE EngineError(d, f, NoTable)
      [] sql.kind = "delete" ->
            IF d[sql.t].kind = "table"
            THEN EngineOk([d EXCEPT ![sql.t].rows = <<>>], f, <<"Count">>,
                          << <<IntV(Len(d[sql.t].rows))>> >>)
            ELSE EngineError(d, f, NoTable)
      [] sql.kind = "create_table" ->
            IF d[sql.t].kind = "none"
            THEN EngineOk([d EXCEPT ![sql.t] = TableObject(sql.cols, <<>>)],
                          f, <<>>, <<>>)
            ELSE EngineError(d, f, "Catalog Error: already exists")
      [] sql.kind = "drop_table" ->
            IF d[sql.t].kind = "table"
            THEN EngineOk([d EXCEPT ![sql.t] = NoObject], f, <<>>, <<>>)
            ELSE EngineError(d, f, NoTable)
      [] sql.kind = "create_view" ->
            IF d[sql.t].kind = "none" /\ d[sql.base].kind = "table"
            THEN EngineOk(
                   [d EXCEPT ![sql.t] = ViewObject(sql.base, d[sql.base].cols)],
                   f, <<>>, <<>>)
            ELSE EngineError(d, f, "Catalog Error: cannot create view")
      [] sql.kind = "drop_view" ->
            IF d[sql.t].kind = "view"
            THEN EngineOk([d EXCEPT ![sql.t] = NoObject], f, <<>>, <<>>)
            ELSE EngineError(d, f, "Catalog Error: View does not exist")
      [] sql.kind = "copy_from" -> CopyFrom(d, f, sql)
      [] sql.kind = "copy_to" -> CopyTo(d, f, sql)

(***************************************************************************)
(* The manager.  Its operations are operators over the record m of the     *)
(* manager's and the engine's state; F is the set of the engine calls of   *)
(* the operation (by position) that fail for an outside reason.  An        *)
(* operation is written as the chain of its steps: each step hands what    *)
(* it computed to the operator of the next step.                           *)
(***************************************************************************)
\* conn.execute(sql) on handle h, r being what the engine did
ConnResult(m, h, sql, r) ==
    [m |-> [m EXCEPT !.db = r.db, !.files = r.files,
                     !.trace = Append(@, [h |-> h, kind |-> sql.kind, t |-> sql.t,
                                          ok |-> r.ok])],
     ok |-> r.ok, exc |-> r.exc, description |-> r.description, rows |-> r.rows]

ConnExecute(m, h, sql, F) ==
    ConnResult(m, h, sql,
        IF h \notin m.live
        THEN EngineError(m.db, m.files, "Connection Error: connection closed")
        ELSE IF (Len(m.trace) + 1) \in F
        THEN EngineError(m.db, m.files, "IO Error: engine call failed")
        ELSE EngineRun(m.db, m.files, sql))

\* a connection property without the test of self._connection: every access
\* connects
ConnectionAlwaysOpens(m) ==
    [m EXCEPT !.connection = m.opened + 1,
              !.opened = m.opened + 1,
              !.live = @ \cup {m.opened + 1}]

\* the connection property: m after the access; the handle is its connection
Connection(m) ==
    IF m.connection = NoneH
    THEN [m EXCEPT !.connection = m.opened + 1,
                   !.opened = m.opened + 1,
                   !.live = @ \cup {m.opened + 1}]
    ELSE m

\* what reading the property returns
ConnectionValue(m1) == [m |-> m1, raised |-> FALSE, exc |-> "", value |-> m1.connection]

\* get_connection yields self.connection and re-raises what its body raises
get_connection(m) == Connection(m)

Returned(m, value) == [m |-> m, raised |-> FALSE, exc |-> "", value |-> value]
Raised(m, exc) == [m |-> m, raised |-> TRUE, exc |-> exc, value |-> <<>>]

\* a dict in which the first of several equal keys wins
DictZipFirst(columns, row) ==
    LET n == IF Len(columns) <= Len(row) THEN Len(columns) ELSE Len(row)
    IN [c \in {columns[i] : i \in 1..n} |->
          row[CHOOSE i \in 1..n :
                 /\ columns[i] = c
                 /\ \A j \in 1..n : columns[j] = c => i <= j]]

\* dict(zip(columns, row, strict=False))
DictZip(columns, row) ==
    LET n == IF Len(columns) <= Len(row) THEN Len(columns) ELSE Len(row)
    IN [c \in {columns[i] : i \in 1..n} |->
          row[CHOOSE i \in 1..n :
                 /\ columns[i] = c
                 /\ \A j \in 1..n : columns[j] = c => j <= i]]

\* an execute_query that drops the handle when the engine raises
QueryResultResets(r) ==
    IF ~r.ok
    THEN Raised([r.m EXCEPT !.live = @ \ {r.m.connection}, !.connection = NoneH],
                r.exc)
    ELSE Returned(r.m,
           [rows |-> [i \in 1..Len(r.rows) |-> DictZip(r.description, r.rows[i])],
            columns |-> r.description])

\* execute_query: the columns of result.description, the rows of fetchall()
\* as dicts; what conn.execute raises is raised
QueryResult(r) ==
    IF ~r.ok THEN Raised(r.m, r.exc)
    ELSE Returned(r.m,
           [rows |-> [i \in 1..Len(r.rows) |-> DictZip(r.description, r.rows[i])],
            columns |-> r.description])
QueryOn(m1, sql, F) == QueryResult(ConnExecute(m1, m1.connection, sql, F))
execute_query(m, sql, F) == QueryOn(get_connection(m), sql, F)

\* execute_statement; fetch is what result.fetchone() does: "row" (the first
\* row, or None) or "raise"
AffectedRows(rows, fetch) ==
    IF fetch = "raise" THEN 0
    ELSE IF Len(rows) > 0 /\ Len(rows[1]) > 0
    THEN (IF rows[1][1].ty = "int" THEN rows[1][1].v ELSE 0)
    ELSE 0
\* execute_statement without the inner try: a failing fetchone() is raised
StatementResultFetchRaises(r, fetch) ==
    IF ~r.ok THEN Raised(r.m, r.exc)
    ELSE IF fetch = "raise" THEN Raised(r.m, "Invalid Input Error: no result set")
    ELSE Returned(r.m, AffectedRows(r.rows, fetch))
StatementResult(r, fetch) ==
    IF ~r.ok THEN Raised(r.m, r.exc)
    ELSE Returned(r.m, AffectedRows(r.rows, fetch))
StatementOn(m1, sql, fetch, F) ==
    StatementResult(ConnExecute(m1, m1.connection, sql, F), fetch)
execute_statement(m, sql, fetch, F) == StatementOn(get_connection(m), sql, fetch, F)

\* [row["table_name"] for row in rows]
TableNames(q) ==
    IF q.raised THEN q
    ELSE Returned(q.m, [i \in 1..Len(q.value.rows) |->
                           q.value.rows[i]["table_name"].s])

list_tables(m, F) == TableNames(execute_query(m, ListTablesSql, F))

list_views(m, F) == TableNames(execute_query(m, ListViewsSql, F))

\* a describe_table that checks the table: no column row is an error
DescribeResultChecked(q) ==
    IF q.raised THEN q
    ELSE IF Len(q.value.rows) = 0 THEN Raised(q.m, NoTable)
    ELSE Returned(q.m, q.value.rows)
DescribeResult(q) == IF q.raised THEN q ELSE Returned(q.m, q.value.rows)
describe_table(m, table_name, F) ==
    DescribeResult(execute_query(m, DescribeSql(table_name), F))

\* get_table_stats: z is what the size query gave, c what the count query gave
\* get_table_stats without the inner try: a failing size lookup is raised
StatsResultStrict(table_name, row_count, z) ==
    IF z.raised THEN z
    ELSE Returned(z.m,
           [table_name |-> table_name, row_count |-> row_count,
            table_size |-> IF Len(z.value.rows) > 0
                           THEN z.value.rows[1]["table_size"].s ELSE "N/A"])
StatsResult(table_name, row_count, z) ==
    Returned(z.m,
       [table_name |-> table_name, row_count |-> row_count,
        table_size |->
            IF z.raised THEN "N/A"
            ELSE IF Len(z.value.rows) > 0 THEN z.value.rows[1]["table_size"].s
            ELSE "N/A"])
StatsAfterCount(c, table_name, F) ==
    IF c.raised THEN c
    ELSE StatsResult(table_name,
            IF Len(c.value.rows) > 0 THEN c.value.rows[1]["row_count"].v ELSE 0,
            execute_query(c.m, SizeSql(table_name), F))
get_table_stats(m, table_name, F) ==
    StatsAfterCount(execute_query(m, CountSql(table_name, "row_count"), F),
                    table_name, F)

\* the options string of import_csv: options is the keyword dictionary, a
\* sequence of [k, v] with v the str() of the Python value
PyTruthy(v) == v \notin {"False", ""}
CsvOption(o) ==
    IF o.k = "HEADER" /\ PyTruthy(o.v) THEN [key |-> "HEADER", val |-> ""]
    ELSE IF o.k = "DELIMITER" THEN [key |-> "DELIMITER", val |-> o.v]
    ELSE [key |-> o.k, val |-> o.v]
CsvOptions(options) ==
    IF Len(options) > 0 THEN [i \in 1..Len(options) |-> CsvOption(options[i])]
    ELSE <<[key |-> "HEADER", val |-> ""]>>

\* import_csv: the COPY (r), then the count query (c) on the same handle
ImportResult(c) ==
    IF ~c.ok THEN Raised(c.m, c.exc)
    ELSE Returned(c.m, IF Len(c.rows) > 0 THEN c.rows[1][1].v ELSE 0)
ImportAfterCopy(r, conn, table_name, F) ==
    IF ~r.ok THEN Raised(r.m, r.exc)
    ELSE ImportResult(ConnExecute(r.m, conn, CountSql(table_name, "count_star()"), F))
ImportOn(m1, file_path, table_name, options, F) ==
    ImportAfterCopy(
        ConnExecute(m1, m1.connection,
                    CopyFromSql(table_name, file_path, CsvOptions(options)), F),
        m1.connection, table_name, F)
import_csv(m, file_path, table_name, options, F) ==
    ImportOn(get_connection(m), file_path, table_name, options, F)

\* format.upper()
Upper(format) ==
    CASE format = "csv" -> "CSV"
      [] format = "parquet" -> "PARQUET"
      [] format = "xml" -> "XML"
      [] OTHER -> format

\* export_table: the handle is obtained, then the format is looked at
ExportResult(r) == IF ~r.ok THEN Raised(r.m, r.exc) ELSE Returned(r.m, "None")
\* an export_table that does not look at the format: what is not PARQUET is
\* written as CSV
ExportOnUnvalidated(m1, table_name, file_path, format, F) ==
    ExportResult(
      ConnExecute(m1, m1.connection,
         CopyToSql(table_name, file_path,
                   IF Upper(format) = "PARQUET" THEN "parquet" ELSE "csv"), F))
ExportOn(m1, table_name, file_path, format, F) ==
    IF Upper(format) \notin {"CSV", "PARQUET"}
    THEN Raised(m1, "Unsupported format")
    ELSE ExportResult(
           ConnExecute(m1, m1.connection,
              CopyToSql(table_name, file_path,
                        IF Upper(format) = "CSV" THEN "csv" ELSE "parquet"), F))
export_table(m, table_name, file_path, format, F) ==
    ExportOn(get_connection(m), table_name, file_path, format, F)

\* a close that closes the handle and keeps the reference to it
closeKeepsHandle(m) ==
    IF m.connection # NoneH
    THEN [m EXCEPT !.live = @ \ {m.connection}]
    ELSE m

close(m) ==
    IF m.connection # NoneH
    THEN [m EXCEPT !.live = @ \ {m.connection}, !.connection = NoneH]
    ELSE m

\* a close without the test of self._connection: the close() of None raises
CloseResultUnguarded(m) ==
    IF m.connection = NoneH
    THEN Raised(m, "AttributeError: 'NoneType' object has no attribute 'close'")
    ELSE Returned(close(m), "None")
\* what a call of close() gives: it returns None
CloseResult(m) == Returned(close(m), "None")

(***************************************************************************)
(* The tool dispatcher.  A tool returns the manager's state after its      *)
(* call, what that call returned or raised (call), and what the transport  *)
(* gets (out): an envelope, a record with the field success.  A text is    *)
(* the sequence of its lines.                                              *)
(***************************************************************************)
\* rows[:5] of execute_query, tables[:10] of database_status
SampleRows == 5
StatusTables == 10

Prefix(s, n) == IF Len(s) <= n THEN s ELSE SubSeq(s, 1, n)

Call(op, via, args, q) ==
    [op |-> op, via |-> via, args |-> args,
     raised |-> q.raised, exc |-> q.exc, value |-> q.value]
NoArgs == [none |-> TRUE]

Tool(op, args, q, out) == [m |-> q.m, call |-> Call(op, "tool", args, q), out |-> out]

\* a text that renders every row
QueryTextAll(rows, columns) ==
    <<[line |-> "Query executed successfully. Returned", n |-> Len(rows)]>>
    \o (IF Len(rows) > 0
        THEN <<[line |-> "Columns", columns |-> columns],
               [line |-> "First 5 rows"]>>
             \o [i \in 1..Len(rows) |-> [line |-> "Row", i |-> i, row |-> rows[i]]]
        ELSE <<>>)

\* the text lines of a successful execute_query
QueryText(rows, columns) ==
    <<[line |-> "Query executed successfully. Returned", n |-> Len(rows)]>>
    \o (IF Len(rows) > 0
        THEN <<[line |-> "Columns", columns |-> columns],
               [line |-> "First 5 rows"]>>
             \o [i \in 1..Len(Prefix(rows, SampleRows)) |->
                   [line |-> "Row", i |-> i, row |-> rows[i]]]
        ELSE <<>>)

QueryEnvelope(q, query) ==
    Tool("execute_query", [query |-> query], q,
         IF q.raised
         THEN [success |-> FALSE, error |-> q.exc, query |-> query,
               text |-> <<[line |-> "Query failed", error |-> q.exc]>>]
         ELSE [success |-> TRUE, columns |-> q.value.columns, rows |-> q.value.rows,
               row_count |-> Len(q.value.rows), query |-> query,
               text |-> QueryText(q.value.rows, q.value.columns)])
tool_execute_query(m, query, F) == QueryEnvelope(execute_query(m, query, F), query)

StatementEnvelope(q, statement, fetch) ==
    Tool("execute_statement", [statement |-> statement, fetch |-> fetch], q,
         IF q.raised
         THEN [success |-> FALSE, error |-> q.exc, statement |-> statement,
               text |-> <<[line |-> "Statement failed", error |-> q.exc]>>]
         ELSE [success |-> TRUE, affected_rows |-> q.value, statement |-> statement,
               text |-> <<[line |-> "Statement executed successfully. rows affected",
                           n |-> q.value]>>])
tool_execute_statement(m, statement, fetch, F) ==
    StatementEnvelope(execute_statement(m, statement, fetch, F), statement, fetch)

ListTablesEnvelope(q) ==
    Tool("list_tables", NoArgs, q,
         IF q.raised
         THEN [success |-> FALSE, error |-> q.exc,
               text |-> <<[line |-> "Failed to list tables", error |-> q.exc]>>]
         ELSE [success |-> TRUE, tables |-> q.value, count |-> Len(q.value),
               text |-> <<[line |-> "Found tables", n |-> Len(q.value),
                           names |-> q.value]>>])
tool_list_tables(m, F) == ListTablesEnvelope(list_tables(m, F))

ListViewsEnvelope(q) ==
    Tool("list_views", NoArgs, q,
         IF q.raised
         THEN [success |-> FALSE, error |-> q.exc,
               text |-> <<[line |-> "Failed to list views", error |-> q.exc]>>]
         ELSE [success |-> TRUE, views |-> q.value, count |-> Len(q.value),
               text |-> <<[line |-> "Found views", n |-> Len(q.value),
                           names |-> q.value]>>])
tool_list_views(m, F) == ListViewsEnvelope(list_views(m, F))

\* one "  - name: type NULL|NOT NULL[ DEFAULT d]" line of describe_table
ColumnLine(col) ==
    [line |-> "column", name |-> col["column_name"].s, type |-> col["data_type"].s,
     nullable |-> IF col["is_nullable"] = StrV("YES") THEN "NULL" ELSE "NOT NULL",
     default |-> IF col["column_default"].ty = "str" /\ col["column_default"].s # ""
                 THEN col["column_default"].s ELSE ""]

DescribeEnvelope(q, table_name) ==
    Tool("describe_table", [table_name |-> table_name], q,
         IF q.raised
         THEN [success |-> FALSE, error |-> q.exc, table_name |-> table_name,
               text |-> <<[line |-> "Failed to describe table", error |-> q.exc]>>]
         ELSE [success |-> TRUE, table_name |-> table_name, columns |-> q.value,
               column_count |-> Len(q.value),
               text |-> <<[line |-> "Table", name |-> table_name],
                          [line |-> "Columns", n |-> Len(q.value)]>>
                        \o [i \in 1..Len(q.value) |-> ColumnLine(q.value[i])]])
tool_describe_table(m, table_name, F) ==
    DescribeEnvelope(describe_table(m, table_name, F), table_name)

StatsEnvelope(q, table_name) ==
    Tool("get_table_stats", [table_name |-> table_name], q,
         IF q.raised
         THEN [success |-> FALSE, error |-> q.exc, table_name |-> table_name,
               text |-> <<[line |-> "Failed to get table stats", error |-> q.exc]>>]
         ELSE [success |-> TRUE, table_name |-> q.value.table_name,
               row_count |-> q.value.row_count, table_size |-> q.value.table_size,
               text |-> <<[line |-> "Table", name |-> q.value.table_name],
                          [line |-> "Row count", n |-> q.value.row_count],
                          [line |-> "Size", size |-> q.value.table_size]>>])
tool_get_table_stats(m, table_name, F) ==
    StatsEnvelope(get_table_stats(m, table_name, F), table_name)

\* str(header) of the bool header
PyStr(b) == IF b THEN "True" ELSE "False"

ImportEnvelope(q, file_path, table_name, header, delimiter) ==
    Tool("import_csv",
         [file_path |-> file_path, table_name |-> table_name, header |-> header,
          delimiter |-> delimiter], q,
         IF q.raised
         THEN [success |-> FALSE, error |-> q.exc, file_path |-> file_path,
               table_name |-> table_name,
               text |-> <<[line |-> "Failed to import CSV", error |-> q.exc]>>]
         ELSE [success |-> TRUE, table_name |-> table_name, file_path |-> file_path,
               rows_imported |-> q.value,
               text |-> <<[line |-> "Successfully imported", n |-> q.value,
                           file_path |-> file_path, table_name |-> table_name]>>])
tool_import_csv(m, file_path, table_name, header, delimiter, F) ==
    ImportEnvelope(
        import_csv(m, file_path, table_name,
                   <<[k |-> "HEADER", v |-> PyStr(header)],
                     [k |-> "DELIMITER", v |-> delimiter]>>, F),
        file_path, table_name, header, delimiter)

\* an export_table tool without its except clause: what the manager raises
\* leaves the tool
ExportEnvelopeUncaught(q, table_name, file_path, format) ==
    Tool("export_table",
         [table_name |-> table_name, file_path |-> file_path, format |-> format], q,
         IF q.raised
         THEN [uncaught |-> q.exc]
         ELSE [success |-> TRUE, table_name |-> table_name, file_path |-> file_path,
               format |-> format,
               text |-> <<[line |-> "Successfully exported", table_name |-> table_name,
                           file_path |-> file_path, format |-> format]>>])

ExportEnvelope(q, table_name, file_path, format) ==
    Tool("export_table",
         [table_name |-> table_name, file_path |-> file_path, format |-> format], q,
         IF q.raised
         THEN [success |-> FALSE, error |-> q.exc, table_name |-> table_name,
               file_path |-> file_path,
               text |-> <<[line |-> "Failed to export table", error |-> q.exc]>>]
         ELSE [success |-> TRUE, table_name |-> table_name, file_path |-> file_path,
               format |-> format,
               text |-> <<[line |-> "Successfully exported", table_name |-> table_name,
                           file_path |-> file_path, format |-> format]>>])
tool_export_table(m, table_name, file_path, format, F) ==
    ExportEnvelope(export_table(m, table_name, file_path, format, F),
                   table_name, file_path, format)

(***************************************************************************)
(* The two composite views.  call.value lists the per-table manager calls  *)
(* of the view, in order, each with whether it raised.                     *)
(***************************************************************************)
View(op, m, calls, lines) ==
    [m |-> m,
     call |-> [op |-> op, via |-> "view", args |-> NoArgs,
               raised |-> FALSE, exc |-> "", value |-> calls],
     out |-> [view |-> op, text |-> lines]]

LoopEnd(m) == [m |-> m, calls |-> <<>>, lines |-> <<>>]
LoopCons(op, table, raised, lines, rest) ==
    [m |-> rest.m,
     calls |-> <<[op |-> op, t |-> table, raised |-> raised]>> \o rest.calls,
     lines |-> lines \o rest.lines]

\* the loop over tables[:10] of database_status: s is what get_table_stats
\* gave for the first of tables
StatusLine(table, s) ==
    IF s.raised THEN [line |-> "- table", name |-> table]
    ELSE [line |-> "- table: n rows", name |-> table, n |-> s.value.row_count]
RECURSIVE StatusLoop(_, _, _)
StatusStep(s, tables, F) ==
    LoopCons("get_table_stats", Head(tables), s.raised,
             <<StatusLine(Head(tables), s)>>, StatusLoop(s.m, Tail(tables), F))
StatusLoop(m, tables, F) ==
    IF Len(tables) = 0 THEN LoopEnd(m)
    ELSE StatusStep(get_table_stats(m, Head(tables), F), tables, F)

StatusText(tables, views, loop) ==
    View("database_status", loop.m, loop.calls,
         <<[line |-> "DuckDB Database Status"],
           [line |-> "Tables", n |-> Len(tables)],
           [line |-> "Views", n |-> Len(views)]>>
         \o (IF Len(tables) > 0 THEN <<[line |-> "Tables:"]>> \o loop.lines
             ELSE <<>>))
StatusFailed(q) ==
    View("database_status", q.m, <<>>,
         <<[line |-> "Failed to get database status", error |-> q.exc]>>)
\* a status view that reads every table
StatusAfterViewsAll(tables, lv, F) ==
    IF lv.raised THEN StatusFailed(lv)
    ELSE StatusText(tables, lv.value, StatusLoop(lv.m, tables, F))
StatusAfterViews(tables, lv, F) ==
    IF lv.raised THEN StatusFailed(lv)
    ELSE StatusText(tables, lv.value,
                    StatusLoop(lv.m, Prefix(tables, StatusTables), F))
StatusAfterTables(lt, F) ==
    IF lt.raised THEN StatusFailed(lt)
    ELSE StatusAfterViews(lt.value, list_views(lt.m, F), F)
database_status(m, F) == StatusAfterTables(list_tables(m, F), F)

\* the loop over tables of database_schema: c is what describe_table gave
\* for the first of tables
SchemaLines(table, c) ==
    IF c.raised
    THEN <<[line |-> "Table (error reading schema)", name |-> table]>>
    ELSE <<[line |-> "Table", name |-> table]>>
         \o [i \in 1..Len(c.value) |->
               [line |-> "column", table |-> table,
                name |-> c.value[i]["column_name"].s,
                type |-> c.value[i]["data_type"].s,
                nullable |-> IF c.value[i]["is_nullable"] = StrV("YES")
                             THEN "" ELSE " NOT NULL"]]
RECURSIVE SchemaLoop(_, _, _)
\* a schema loop without the inner try: the first table that cannot be read
\* ends the listing
SchemaStepAbort(c, tables, F) ==
    IF c.raised
    THEN LoopCons("describe_table", Head(tables), TRUE,
                  SchemaLines(Head(tables), c), LoopEnd(c.m))
    ELSE LoopCons("describe_table", Head(tables), FALSE,
                  SchemaLines(Head(tables), c), SchemaLoop(c.m, Tail(tables), F))
SchemaStep(c, tables, F) ==
    LoopCons("describe_table", Head(tables), c.raised,
             SchemaLines(Head(tables), c), SchemaLoop(c.m, Tail(tables), F))
SchemaLoop(m, tables, F) ==
    IF Len(tables) = 0 THEN LoopEnd(m)
    ELSE SchemaStep(describe_table(m, Head(tables), F), tables, F)

SchemaText(loop) ==
    View("database_schema", loop.m, loop.calls,
         <<[line |-> "Database Schema"]>> \o loop.lines)
SchemaAfterTables(lt, F) ==
    IF lt.raised
    THEN View("database_schema", lt.m, <<>>,
              <<[line |-> "Failed to get database schema", error |-> lt.exc]>>)
    ELSE SchemaText(SchemaLoop(lt.m, lt.value, F))
database_schema(m, F) == SchemaAfterTables(list_tables(m, F), F)

(***************************************************************************)
(* The state machine: one action per tool, view and direct manager call.   *)
(***************************************************************************)
\* the threads that call the manager, none of them inside an operation
NumThreads == 2
Threads == 1..NumThreads
NoThreads == [t \in Threads |-> [pc |-> "idle", h |-> NoneH]]

\* the manager's and the engine's state at the start of an operation
M == [connection |-> connection, opened |-> opened, live |-> live,
      db |-> db, files |-> files, trace |-> <<>>]

\* the sets of engine calls that fail for an outside reason, for an
\* operation of at most k engine calls: none, or one of them
Faults(k) == {{}} \cup {{i} : i \in 1..k}

Formats == {"CSV", "csv", "PARQUET", "XML"}
Delimiters == {",", ";"}
FetchModes == {"row", "raise"}

\* the operation r is taken: its effects become the state; the database
\* grows to MaxRows rows at most
Commit(r) ==
    /\ TotalRows(r.m.db) <= (IF TotalRows(db) > MaxRows THEN TotalRows(db)
                              ELSE MaxRows)
    /\ connection' = r.m.connection
    /\ opened' = r.m.opened
    /\ live' = r.m.live
    /\ db' = r.m.db
    /\ files' = r.m.files
    /\ trace' = r.m.trace
    /\ ret' = r.call
    /\ env' = r.out
    /\ UNCHANGED <<db_manager, created, threads>>

\* a direct call of the manager: no envelope
NoEnvelope == [direct |-> TRUE]
Direct(op, args, q) ==
    [m |-> q.m, call |-> Call(op, "manager", args, q), out |-> NoEnvelope]

\* _db_manager is None; the instance DuckDBManager(db_path), the id-th one
\* constructed
NoManager == [id |-> 0, db_path |-> ""]
NewManager(id, db_path) == [id |-> id, db_path |-> db_path]
\* the default of the parameter db_path, and other paths
DefaultDbPath == "./data/gigr.duckdb"
DbPaths == {DefaultDbPath, "w.duckdb", "x.duckdb", "y.duckdb", "z.duckdb"}

\* a get_db_manager that constructs a manager for a path it has none for
get_db_managerPerPath(g, db_path) ==
    IF g.db_manager = NoManager \/ g.db_manager.db_path # db_path
    THEN [db_manager |-> NewManager(g.created + 1, db_path),
          created |-> g.created + 1,
          value |-> NewManager(g.created + 1, db_path)]
    ELSE [db_manager |-> g.db_manager, created |-> g.created,
          value |-> g.db_manager]

\* get_db_manager(db_path): g is the global and the number of instances
\* constructed so far; the result holds them after the call and the instance
\* returned
get_db_manager(g, db_path) ==
    IF g.db_manager = NoManager
    THEN [db_manager |-> NewManager(g.created + 1, db_path),
          created |-> g.created + 1,
          value |-> NewManager(g.created + 1, db_path)]
    ELSE [db_manager |-> g.db_manager, created |-> g.created,
          value |-> g.db_manager]

\* the CSV file with the header of cols and n data lines
CsvFile(cols, n) ==
    FileOf("csv", <<ColumnNames(cols)>>
                  \o [i \in 1..n |-> RowLine(InsertRow(cols, 1))])

Init ==
    /\ connection = NoneH
    /\ opened = 0
    /\ live = {}
    /\ db = [n \in Names |-> NoObject]
    /\ files \in [Paths -> {NoFile} \cup {CsvFile(cols, n) :
                                cols \in ColumnLists, n \in 0..MaxRows}]
    /\ trace = <<>>
    /\ ret = [op |-> "init", via |-> "manager", args |-> NoArgs,
              raised |-> FALSE, exc |-> "", value |-> <<>>]
    /\ env = NoEnvelope
    /\ db_manager = NewManager(1, DefaultDbPath)
    /\ created = 1
    /\ threads = NoThreads

ExecuteQuery ==
    \E query \in UserQueries, F \in Faults(1) : Commit(tool_execute_query(M, query, F))

ExecuteStatement ==
    \E statement \in UserStatements, fetch \in FetchModes, F \in Faults(1) :
        Commit(tool_execute_statement(M, statement, fetch, F))

ListTables == \E F \in Faults(1) : Commit(tool_list_tables(M, F))

ListViews == \E F \in Faults(1) : Commit(tool_list_views(M, F))

DescribeTable ==
    \E table_name \in Names, F \in Faults(1) :
        Commit(tool_describe_table(M, table_name, F))

GetTableStats ==
    \E table_name \in Names, F \in Faults(2) :
        Commit(tool_get_table_stats(M, table_name, F))

ImportCsv ==
    \E file_path \in Paths, table_name \in Names, header \in BOOLEAN,
       delimiter \in Delimiters, F \in Faults(2) :
        Commit(tool_import_csv(M, file_path, table_name, header, delimiter, F))

ExportTable ==
    \E table_name \in Names, file_path \in Paths, format \in Formats, F \in Faults(1) :
        Commit(tool_export_table(M, table_name, file_path, format, F))

DatabaseStatus == \E F \in Faults(MaxFaultIdx) : Commit(database_status(M, F))

DatabaseSchema == \E F \in Faults(MaxFaultIdx) : Commit(database_schema(M, F))

\* db.connection read directly
AccessConnection ==
    Commit(Direct("connection", NoArgs, ConnectionValue(Connection(M))))

\* db.import_csv called directly with the keyword HEADER=True, or with none
ManagerImportCsv ==
    \E file_path \in Paths, table_name \in Names, F \in Faults(2),
       options \in {<<>>, <<[k |-> "HEADER", v |-> "True"]>>} :
        Commit(Direct("import_csv",
                      [file_path |-> file_path, table_name |-> table_name,
                       header |-> TRUE, options |-> options],
                      import_csv(M, file_path, table_name, options, F)))

\* db.close(); a closed handle can be replaced while handles remain
Close ==
    /\ opened < MaxHandles
    /\ Commit(Direct("close", NoArgs, CloseResult(M)))

Next ==
    \/ ExecuteQuery
    \/ ExecuteStatement
    \/ ListTables
    \/ ListViews
    \/ DescribeTable
    \/ GetTableStats
    \/ ImportCsv
    \/ ExportTable
    \/ DatabaseStatus
    \/ DatabaseSchema
    \/ AccessConnection
    \/ ManagerImportCsv
    \/ Close

Spec == Init /\ [][Next]_vars

(***************************************************************************)
(* Queries of a database file that holds rows already: the manager is      *)
(* constructed on a file in which table "a" has up to MaxResultRows rows,  *)
(* and execute_query is called with a SELECT of all columns, under their   *)
(* own names or under aliases, equal ones among them.                      *)
(***************************************************************************)
MaxResultRows == 6
ResultValues == {1, 2}
ResultRows ==
    UNION {[1..n -> {InsertRow(cols, v) : cols \in ColumnLists, v \in ResultValues}] :
              n \in 0..MaxResultRows}
QueryTexts ==
    {InvalidSql, SelectSql("a"), SelectSql("b"),
     SelectAsSql("a", <<"id", "id">>), SelectAsSql("a", <<"x", "y">>)}

InitQuery ==
    /\ connection = NoneH
    /\ opened = 0
    /\ live = {}
    /\ db \in {[n \in Names |-> IF n = "a" THEN TableObject(cols, rows) ELSE NoObject] :
                  cols \in ColumnLists, rows \in ResultRows}
    /\ files = [p \in Paths |-> NoFile]
    /\ trace = <<>>
    /\ ret = [op |-> "init", via |-> "manager", args |-> NoArgs,
              raised |-> FALSE, exc |-> "", value |-> <<>>]
    /\ env = NoEnvelope
    /\ db_manager = NewManager(1, DefaultDbPath)
    /\ created = 1
    /\ threads = NoThreads

RunQuery ==
    \E query \in QueryTexts, F \in Faults(1) : Commit(tool_execute_query(M, query, F))

NextQuery == RunQuery \/ Close

SpecQuery == InitQuery /\ [][NextQuery]_vars

(***************************************************************************)
(* The status view of a database file that holds many tables: any of the   *)
(* names of AllNames is a table (more than StatusTables of them in all),   *)
(* the first of them with a row.                                           *)
(***************************************************************************)
InitStatus ==
    /\ connection = NoneH
    /\ opened = 0
    /\ live = {}
    /\ db \in {[n \in AllNames |->
                  IF n \in S
                  THEN TableObject(cols, IF n = "a" THEN <<InsertRow(cols, 1)>> ELSE <<>>)
                  ELSE NoObject] : S \in SUBSET AllNames, cols \in ColumnLists}
    /\ files = [p \in Paths |-> NoFile]
    /\ trace = <<>>
    /\ ret = [op |-> "init", via |-> "manager", args |-> NoArgs,
              raised |-> FALSE, exc |-> "", value |-> <<>>]
    /\ env = NoEnvelope
    /\ db_manager = NewManager(1, DefaultDbPath)
    /\ created = 1
    /\ threads = NoThreads

SpecStatus == InitStatus /\ [][DatabaseStatus]_vars

(***************************************************************************)
(* The global manager: the module is loaded, get_db_manager is called with *)
(* any path, and the instance it returned is used.                         *)
(***************************************************************************)
InitGlobal ==
    /\ connection = NoneH
    /\ opened = 0
    /\ live = {}
    /\ db = [n \in Names |-> NoObject]
    /\ files = [p \in Paths |-> NoFile]
    /\ trace = <<>>
    /\ ret = [op |-> "init", via |-> "manager", args |-> NoArgs,
              raised |-> FALSE, exc |-> "", value |-> <<>>]
    /\ env = NoEnvelope
    /\ db_manager = NoManager
    /\ created = 0
    /\ threads = NoThreads

\* what a call of get_db_manager leaves: g is its result
GlobalCommit(db_path, g) ==
    /\ db_manager' = g.db_manager
    /\ created' = g.created
    /\ ret' = [op |-> "get_db_manager", via |-> "manager",
               args |-> [db_path |-> db_path],
               raised |-> FALSE, exc |-> "", value |-> g.value]
    /\ env' = NoEnvelope
    /\ trace' = <<>>
    /\ UNCHANGED <<connection, opened, live, db, files, threads>>

GetDbManager ==
    \E db_path \in DbPaths :
        GlobalCommit(db_path,
            get_db_manager([db_manager |-> db_manager, created |-> created], db_path))

\* methods of the instance that get_db_manager returned
InstanceConnection == db_manager # NoManager /\ AccessConnection
InstanceClose == db_manager # NoManager /\ Close
InstanceListTables ==
    /\ db_manager # NoManager
    /\ \E F \in Faults(1) : Commit(Direct("list_tables", NoArgs, list_tables(M, F)))
InstanceListViews ==
    /\ db_manager # NoManager
    /\ \E F \in Faults(1) : Commit(Direct("list_views", NoArgs, list_views(M, F)))

NextGlobal ==
    \/ GetDbManager
    \/ InstanceConnection
    \/ InstanceClose
    \/ InstanceListTables
    \/ InstanceListViews

SpecGlobal == InitGlobal /\ [][NextGlobal]_vars

(***************************************************************************)
(* Threads that call the one manager with nothing between them: each runs  *)
(* list_tables or close, and a step is one read or write of                *)
(* self._connection or one call of the engine.  A list_tables tests the    *)
(* stored handle (test), connects (connect) and stores the new handle      *)
(* (store) when it found none, reads the stored handle back (return) and   *)
(* executes on what it read (execute).  A close tests the stored handle    *)
(* (ctest), closes it (cclose) and clears the stored reference (cclear).   *)
(***************************************************************************)
InitConc ==
    /\ connection = NoneH
    /\ opened = 0
    /\ live = {}
    /\ db = [n \in Names |-> NoObject]
    /\ files = [p \in Paths |-> NoFile]
    /\ trace = <<>>
    /\ ret = [op |-> "init", via |-> "manager", args |-> NoArgs,
              raised |-> FALSE, exc |-> "", value |-> <<>>]
    /\ env = NoEnvelope
    /\ db_manager = NewManager(1, DefaultDbPath)
    /\ created = 1
    /\ threads = NoThreads

\* thread t moves to pc holding h
Goto(t, pc, h) == threads' = [threads EXCEPT ![t] = [pc |-> pc, h |-> h]]

\* what thread t's operation op gave: q is its result
Finish(t, op, q) ==
    /\ ret' = Call(op, "manager", [thread |-> t], q)
    /\ trace' = q.m.trace

\* the threads that may still connect
Connecting == {u \in Threads : threads[u].pc \in {"test", "connect"}}

\* a thread calls list_tables, while handles remain for it to open
BeginListTables ==
    \E t \in Threads :
        /\ threads[t].pc = "idle"
        /\ opened + Cardinality(Connecting) < MaxHandles
        /\ Goto(t, "test", threads[t].h)
        /\ UNCHANGED <<connection, opened, live, db, files, trace, ret, env,
                       db_manager, created>>

\* a connection property that connects whatever the stored handle is
ConnectionTestAlways(c) == "connect"

\* if self._connection is None: where the property goes on
ConnectionTest(c) == IF c = NoneH THEN "connect" ELSE "return"

PropertyTest ==
    \E t \in Threads :
        /\ threads[t].pc = "test"
        /\ Goto(t, ConnectionTest(connection), threads[t].h)
        /\ UNCHANGED <<connection, opened, live, db, files, trace, ret, env,
                       db_manager, created>>

\* duckdb.connect(self.db_path) returns a new handle
PropertyConnect ==
    \E t \in Threads :
        /\ threads[t].pc = "connect"
        /\ opened' = opened + 1
        /\ live' = live \cup {opened + 1}
        /\ Goto(t, "store", opened + 1)
        /\ UNCHANGED <<connection, db, files, trace, ret, env, db_manager, created>>

\* self._connection = the handle duckdb.connect returned
PropertyStore ==
    \E t \in Threads :
        /\ threads[t].pc = "store"
        /\ connection' = threads[t].h
        /\ Goto(t, "return", threads[t].h)
        /\ UNCHANGED <<opened, live, db, files, trace, ret, env, db_manager, created>>

\* return self._connection: the thread holds what is stored now
PropertyReturn ==
    \E t \in Threads :
        /\ threads[t].pc = "return"
        /\ Goto(t, "execute", connection)
        /\ UNCHANGED <<connection, opened, live, db, files, trace, ret, env,
                       db_manager, created>>

\* conn.execute(query) on the handle the thread holds; None has no execute
ExecuteOn(m, h) ==
    IF h = NoneH
    THEN Raised(m, "AttributeError: 'NoneType' object has no attribute 'execute'")
    ELSE TableNames(QueryResult(ConnExecute(m, h, ListTablesSql, {})))

ThreadExecute ==
    \E t \in Threads :
        /\ threads[t].pc = "execute"
        /\ Finish(t, "list_tables", ExecuteOn(M, threads[t].h))
        /\ Goto(t, "idle", threads[t].h)
        /\ UNCHANGED <<connection, opened, live, db, files, env, db_manager, created>>

\* a thread calls close
BeginClose ==
    \E t \in Threads :
        /\ threads[t].pc = "idle"
        /\ Goto(t, "ctest", threads[t].h)
        /\ UNCHANGED <<connection, opened, live, db, files, trace, ret, env,
                       db_manager, created>>

\* if self._connection:
CloseTest ==
    \E t \in Threads :
        /\ threads[t].pc = "ctest"
        /\ IF connection # NoneH
           THEN /\ Goto(t, "cclose", threads[t].h)
                /\ UNCHANGED <<ret, trace>>
           ELSE /\ Goto(t, "idle", threads[t].h)
                /\ Finish(t, "close", Returned(M, <<>>))
        /\ UNCHANGED <<connection, opened, live, db, files, env, db_manager, created>>

\* self._connection.close(), on what is stored now; None has no close
CloseHandle ==
    \E t \in Threads :
        /\ threads[t].pc = "cclose"
        /\ IF connection # NoneH
           THEN /\ live' = live \ {connection}
                /\ Goto(t, "cclear", threads[t].h)
                /\ UNCHANGED <<ret, trace>>
           ELSE /\ live' = live
                /\ Goto(t, "idle", threads[t].h)
                /\ Finish(t, "close",
                      Raised(M, "AttributeError: 'NoneType' object has no attribute 'close'"))
        /\ UNCHANGED <<connection, opened, db, files, env, db_manager, created>>

\* a close that leaves the stored reference as it is
ClearedKeeps(c) == c

\* self._connection = None
Cleared(c) == NoneH

CloseClear ==
    \E t \in Threads :
        /\ threads[t].pc = "cclear"
        /\ connection' = Cleared(connection)
        /\ Goto(t, "idle", threads[t].h)
        /\ Finish(t, "close", Returned(M, <<>>))
        /\ UNCHANGED <<opened, live, db, files, env, db_manager, created>>

NextConc ==
    \/ BeginListTables
    \/ PropertyTest
    \/ PropertyConnect
    \/ PropertyStore
    \/ PropertyReturn
    \/ ThreadExecute
    \/ BeginClose
    \/ CloseTest
    \/ CloseHandle
    \/ CloseClear

SpecConc == InitConc /\ [][NextConc]_vars

(***************************************************************************)
(* The properties.  ret and env are what the last operation gave; trace is *)
(* the engine calls it made.                                               *)
(***************************************************************************)
ToolOps == {"execute_query", "execute_statement", "list_tables", "list_views",
            "describe_table", "get_table_stats", "import_csv", "export_table"}

\* the failure message of each tool, and the request fields its failure
\* envelope restates
FailureLine == [op \in ToolOps |->
    CASE op = "execute_query" -> "Query failed"
      [] op = "execute_statement" -> "Statement failed"
      [] op = "list_tables" -> "Failed to list tables"
      [] op = "list_views" -> "Failed to list views"
      [] op = "describe_table" -> "Failed to describe table"
      [] op = "get_table_stats" -> "Failed to get table stats"
      [] op = "import_csv" -> "Failed to import CSV"
      [] op = "export_table" -> "Failed to export table"]
RequestFields == [op \in ToolOps |->
    CASE op = "execute_query" -> {"query"}
      [] op = "execute_statement" -> {"statement"}
      [] op \in {"describe_table", "get_table_stats"} -> {"table_name"}
      [] op \in {"import_csv", "export_table"} -> {"table_name", "file_path"}
      [] OTHER -> {}]

\* C1: whatever the manager call of a tool raises, the tool returns an
\* envelope (nothing leaves the tool as an exception): success is false,
\* error is the message of the exception, text is the tool's failure
\* message, and the identifying fields of the request are restated; when the
\* manager call returns, success is true.
C1_FailureEnvelope ==
    ret.via = "tool" =>
        /\ ret.op \in ToolOps
        /\ "success" \in DOMAIN env
        /\ env.success = ~ret.raised
        /\ ret.raised =>
              /\ env.error = ret.exc
              /\ ret.exc # ""
              /\ Len(env.text) = 1
              /\ env.text[1].line = FailureLine[ret.op]
              /\ env.text[1].error = ret.exc
              /\ \A k \in RequestFields[ret.op] :
                    k \in DOMAIN env /\ env[k] = ret.args[k]

\* C1 happens: a query of a table that does not exist gives a failure
\* envelope
C1_Witness ==
    /\ ret.via = "tool"
    /\ ret.op = "execute_query"
    /\ ret.raised
    /\ ret.exc = NoTable
    /\ env.success = FALSE
    /\ env.query = ret.args.query

\* C2: at most one handle is live, it is the stored one, and an operation
\* other than close that finds a stored handle leaves it the stored handle
\* and opens none.
C2_SingleHandle ==
    [][/\ Cardinality(live') <= 1
       /\ live' = (IF connection' = NoneH THEN {} ELSE {connection'})
       /\ (connection # NoneH /\ ret'.op # "close") =>
              /\ connection' = connection
              /\ opened' = opened
              /\ live' = live
       /\ ret'.op = "connection" => ret'.value = connection']_vars

\* C2 happens: the property is read after a close and a second handle,
\* the only live one, is returned
C2_Witness ==
    /\ ret.op = "connection"
    /\ ret.value = 2
    /\ opened = 2
    /\ live = {2}

\* C3: close leaves no stored handle; an operation that finds none opens a
\* fresh handle, makes all its engine calls on it, and does not fail for a
\* closed connection.
C3_ReopenAfterClose ==
    [][/\ ret'.op = "close" => (connection' = NoneH /\ live' = {})
       /\ (connection = NoneH /\ ret'.op # "close") =>
              /\ connection' = opened + 1
              /\ opened' = opened + 1
              /\ live' = {connection'}
              /\ \A i \in DOMAIN trace' : trace'[i].h = connection'
              /\ ret'.exc # "Connection Error: connection closed"]_vars

\* C3 happens: a query has run, and succeeded, on the second handle
C3_Witness ==
    /\ ret.op = "execute_query"
    /\ ~ret.raised
    /\ opened = 2
    /\ connection = 2
    /\ Len(trace) = 1
    /\ trace[1].h = 2

Unsupported(format) == Upper(format) \notin {"CSV", "PARQUET"}

C5_AsStated ==
    (ret.op = "describe_table" /\ db[ret.args.table_name].kind # "table") =>
        ret.raised /\ env.success = FALSE

\* C5: describe_table of a name that is no object of the default schema
\* returns the empty column list, and the tool an envelope with success true
\* and column_count 0, unless the catalog query itself fails: then the
\* engine's error is raised and the envelope has success false.
C5_DescribeMissing ==
    (ret.op = "describe_table" /\ db[ret.args.table_name].kind = "none") =>
        /\ Len(trace) = 1
        /\ ret.raised = ~trace[1].ok
        /\ env.success = ~ret.raised
        /\ ~ret.raised => (ret.value = <<>> /\ env.column_count = 0)

\* C5 happens: the describe_table of a missing table has succeeded
C5_Witness ==
    /\ ret.op = "describe_table"
    /\ db[ret.args.table_name].kind = "none"
    /\ ~ret.raised
    /\ env.success
    /\ env.column_count = 0

\* the data lines of a CSV file with a header
DataLines(file) == Len(file.lines) - 1

\* C6 as stated: an import_csv with header=true that succeeds returns the
\* number N of data lines of the file, and the table then holds N rows.
C6_AsStated ==
    (ret.op = "import_csv" /\ ~ret.raised /\ ret.args.header) =>
        /\ ret.value = DataLines(files[ret.args.file_path])
        /\ Len(db[ret.args.table_name].rows) = DataLines(files[ret.args.file_path])

C8_TableStats ==
    ret.op = "get_table_stats" =>
        /\ Len(trace) >= 1
        /\ trace[1].kind = "count"
        /\ ret.raised = ~trace[1].ok
        /\ ret.raised => Len(trace) = 1
        /\ ~ret.raised =>
              /\ Len(trace) = 2
              /\ ret.value.table_name = ret.args.table_name
              /\ ret.value.row_count = Len(RowsOf(db, ret.args.table_name))
              /\ ~trace[2].ok => ret.value.table_size = "N/A"

\* C8 happens: the size lookup failed and the stats of a table of one row
\* were returned
C8_Witness ==
    /\ ret.op = "get_table_stats"
    /\ ~ret.raised
    /\ Len(trace) = 2
    /\ ~trace[2].ok
    /\ ret.value.row_count = 1
    /\ ret.value.table_size = "N/A"

\* the views: the text was rendered (the listing itself did not fail), the
\* lines of the text about table t, the tables of the database
Rendered == ret.via = "view" /\ "error" \notin DOMAIN env.text[1]
TableLineTags == {"- table", "- table: n rows", "Table",
                  "Table (error reading schema)"}
LinesOf(t) ==
    {j \in DOMAIN env.text :
        env.text[j].line \in TableLineTags /\ env.text[j].name = t}
Tables == {n \in DOMAIN db : db[n].kind = "table"}

\* C9 as stated: in both views a table that could not be read is rendered
\* as an "error reading" placeholder.
C9_AsStated ==
    Rendered =>
        \A i \in DOMAIN ret.value :
            ret.value[i].raised =>
                \E j \in LinesOf(ret.value[i].t) :
                    env.text[j].line = "Table (error reading schema)"

\* C9: in both views every table of the listing is read once and has one
\* line of its own in the text, whether or not another table could be read:
\* a table that was read has its row count (status) or its header and
\* columns (schema); a table that could not be read is rendered as
\* "(error reading schema)" by the schema view and as its bare name by the
\* status view.
C9_PerTableFailure ==
    Rendered =>
        /\ Len(ret.value) = Cardinality(Tables)
        /\ {ret.value[i].t : i \in DOMAIN ret.value} = Tables
        /\ \A i \in DOMAIN ret.value :
              /\ Cardinality(LinesOf(ret.value[i].t)) = 1
              /\ \A j \in LinesOf(ret.value[i].t) :
                    env.text[j].line =
                        IF ret.op = "database_schema"
                        THEN (IF ret.value[i].raised
                              THEN "Table (error reading schema)" ELSE "Table")
                        ELSE (IF ret.value[i].raised
                              THEN "- table" ELSE "- table: n rows")

\* C9 happens: the status view could not read its first table and rendered
\* the second one with its row count
C9_Witness ==
    /\ ret.op = "database_status"
    /\ Rendered
    /\ Len(ret.value) = 2
    /\ ret.value[1].raised
    /\ ~ret.value[2].raised
    /\ \E j \in LinesOf(ret.value[2].t) : env.text[j].line = "- table: n rows"

\* C10: list_tables returns every table of the database (a table is there
\* from its CREATE TABLE to its DROP TABLE) exactly once, the names in
\* alphabetical order; describe_table of a table returns its columns in the
\* order of their declaration.
C10_ListAndDescribe ==
    /\ (ret.op = "list_tables" /\ ~ret.raised) =>
          /\ \A n \in Tables : \E i \in DOMAIN ret.value : ret.value[i] = n
          /\ \A i, j \in DOMAIN ret.value :
                i < j => NameRank[ret.value[i]] < NameRank[ret.value[j]]
    /\ (ret.op = "describe_table" /\ ~ret.raised
          /\ db[ret.args.table_name].kind = "table") =>
          /\ Len(ret.value) = Len(db[ret.args.table_name].cols)
          /\ \A i \in DOMAIN ret.value :
                ret.value[i]["column_name"].s =
                    db[ret.args.table_name].cols[i].column_name

\* C10 happens: two tables were created and list_tables returned both
C10_Witness ==
    /\ ret.op = "list_tables"
    /\ ~ret.raised
    /\ ret.value = <<"a", "b">>
    /\ db["a"].kind = "table"
    /\ db["b"].kind = "table"

Min(a, b) == IF a <= b THEN a ELSE b

\* C12: a successful execute_query tool call returns success true, the
\* columns and all the rows of the manager, their number as row_count, the
\* query, and a text whose first line states the number of rows and whose
\* sample lines are the first min(5, row_count) rows, in result order.
C12_QueryEnvelope ==
    (ret.op = "execute_query" /\ ~ret.raised) =>
        LET rows == ret.value.rows
            n == Len(rows)
        IN /\ env.success
           /\ env.columns = ret.value.columns
           /\ env.rows = rows
           /\ env.row_count = n
           /\ env.query = ret.args.query
           /\ env.text[1].line = "Query executed successfully. Returned"
           /\ env.text[1].n = n
           /\ Len(env.text) = (IF n = 0 THEN 1 ELSE 3 + Min(5, n))
           /\ \A k \in 1..Min(5, n) :
                 /\ env.text[3 + k].line = "Row"
                 /\ env.text[3 + k].i = k
                 /\ env.text[3 + k].row = rows[k]

\* C12 happens: a query returned six rows, the sixth unlike the fifth, and
\* the text has five sample lines
C12_Witness ==
    /\ ret.op = "execute_query"
    /\ ~ret.raised
    /\ env.row_count = 6
    /\ env.rows[6] # env.rows[5]
    /\ Len(env.text) = 8

\* the result of the query of the last execute_query, as the engine gives it
EngineResult == EngineRun(db, files, ret.args.query)
\* the last column of the list columns that bears the name c
LastColumn(columns, c) ==
    CHOOSE k \in DOMAIN columns :
        columns[k] = c /\ \A j \in DOMAIN columns : columns[j] = c => j <= k

\* C16: a successful execute_query returns the column names of the result,
\* equal ones included, in their order, and for every result row a mapping
\* with one entry per distinct name, whose value is that of the last column
\* of the name (so with unique names one entry per column).
C16_DuplicateColumns ==
    (ret.op = "execute_query" /\ ~ret.raised) =>
        /\ ret.value.columns = EngineResult.description
        /\ Len(ret.value.rows) = Len(EngineResult.rows)
        /\ \A i \in DOMAIN ret.value.rows :
              /\ DOMAIN ret.value.rows[i] =
                    {ret.value.columns[k] : k \in DOMAIN ret.value.columns}
              /\ \A c \in DOMAIN ret.value.rows[i] :
                    ret.value.rows[i][c] =
                        EngineResult.rows[i][LastColumn(ret.value.columns, c)]

\* C16 happens: both columns of a row were selected under the name "id", and
\* the row's mapping holds the value of the second one alone
C16_Witness ==
    /\ ret.op = "execute_query"
    /\ ~ret.raised
    /\ ret.value.columns = <<"id", "id">>
    /\ Len(ret.value.rows) > 0
    /\ DOMAIN ret.value.rows[1] = {"id"}
    /\ ret.value.rows[1]["id"] = db["a"].rows[1][2]
    /\ db["a"].rows[1][1] # db["a"].rows[1][2]

\* C13: get_db_manager returns the global instance; it constructs one only
\* when there is none, with the path of that call, so that at most one
\* instance is ever constructed; once there is an instance it stays the
\* global one, with its db_path, whatever path later calls pass, and a call
\* leaves the instance's connection as it was.
C13_Singleton ==
    [][/\ db_manager # NoManager => db_manager' = db_manager /\ created' = created
       /\ created' <= 1
       /\ ret'.op = "get_db_manager" =>
             /\ ret'.value = db_manager'
             /\ ret'.value # NoManager
             /\ db_manager = NoManager =>
                   /\ created' = created + 1
                   /\ ret'.value.db_path = ret'.args.db_path
             /\ UNCHANGED <<connection, opened, live, db, files>>]_vars

\* C13 happens: a call with another path than the first call's returned the
\* one instance, whose connection is open
C13_Witness ==
    /\ ret.op = "get_db_manager"
    /\ created = 1
    /\ ret.value = db_manager
    /\ ret.args.db_path # db_manager.db_path
    /\ connection # NoneH

\* C14: close() never raises and leaves no stored handle; the database, the
\* files and the count of opened handles are as before; when no handle is
\* stored nothing of the manager changes, and a close() after a close()
\* leaves everything as the first one left it.
C14_CloseNoOp ==
    [][ret'.op = "close" =>
          /\ ~ret'.raised
          /\ connection' = NoneH
          /\ db' = db /\ files' = files /\ opened' = opened
          /\ connection = NoneH => (live' = live /\ connection' = connection)
          /\ ret.op = "close" =>
                /\ ret' = ret
                /\ UNCHANGED <<connection, opened, live, db, files>>]_vars

\* C14 happens: close() was called on a manager that never had a handle
C14_Witness ==
    /\ ret.op = "close"
    /\ ~ret.raised
    /\ opened = 0
    /\ connection = NoneH
    /\ live = {}

\* the handle an operation works with: the stored one, or the one it opens
HandleOf(c, n) == IF c = NoneH THEN n + 1 ELSE c

TablesBefore(t) == {u \in Tables : NameRank[u] < NameRank[t]}

\* C17: the status view states the number of all tables and of all views,
\* calls get_table_stats for the first ten tables of the alphabetical list,
\* in that order, and for no other, and has one line for each of these ten
\* and none for a later table.
C17_FirstTenTables ==
    (ret.op = "database_status" /\ Rendered) =>
        /\ env.text[2].line = "Tables" /\ env.text[2].n = Cardinality(Tables)
        /\ env.text[3].line = "Views"
        /\ env.text[3].n = Cardinality({n \in DOMAIN db : db[n].kind = "view"})
        /\ Len(ret.value) = Min(10, Cardinality(Tables))
        /\ \A i \in DOMAIN ret.value :
              /\ ret.value[i].t \in Tables
              /\ Cardinality(TablesBefore(ret.value[i].t)) = i - 1
        /\ \A t \in Tables :
              Cardinality(LinesOf(t)) =
                  (IF Cardinality(TablesBefore(t)) < 10 THEN 1 ELSE 0)
        /\ \A i \in DOMAIN trace :
              trace[i].kind \in {"count", "size"} =>
                  /\ trace[i].t \in Tables
                  /\ Cardinality(TablesBefore(trace[i].t)) < 10

\* C17 happens: the database holds twelve tables, the view states twelve
\* and has read ten
C17_Witness ==
    /\ ret.op = "database_status"
    /\ Rendered
    /\ Cardinality(Tables) = 12
    /\ env.text[2].n = 12
    /\ Len(ret.value) = 10
    /\ LinesOf("k") = {}
    /\ LinesOf("j") # {}

\* C20 as stated: an import_csv that ends in failure leaves the rows of its
\* target table as they were before the call.
C20_AsStated ==
    [][(ret'.op = "import_csv" /\ ret'.raised) =>
          db'[ret'.args.table_name] = db[ret'.args.table_name]]_vars

\* C20: an import_csv that ends in failure has failed in its bulk copy or in
\* its follow-up count query. When the bulk copy fails, the database is as
\* before the call. When the bulk copy succeeds and the count query fails,
\* the failure is reported, by the tool with success false, and the rows of
\* the file stay in the target table behind the rows it held; every other
\* table is as before.
C20_ImportFailure ==
    [][(ret'.op = "import_csv" /\ ret'.raised) =>
          /\ Len(trace') \in {1, 2}
          /\ trace'[1].kind = "copy_from"
          /\ ~trace'[Len(trace')].ok
          /\ ret'.via = "tool" => (env'.success = FALSE /\ env'.error = ret'.exc)
          /\ Len(trace') = 1 => db' = db
          /\ Len(trace') = 2 =>
                /\ trace'[1].ok
                /\ trace'[2].kind = "count"
                /\ db[ret'.args.table_name].kind = "table"
                /\ db'[ret'.args.table_name].cols = db[ret'.args.table_name].cols
                /\ Len(db'[ret'.args.table_name].rows) >=
                       Len(db[ret'.args.table_name].rows)
                /\ Prefix(db'[ret'.args.table_name].rows,
                          Len(db[ret'.args.table_name].rows)) =
                       db[ret'.args.table_name].rows
                /\ \A n \in DOMAIN db :
                      n # ret'.args.table_name => db'[n] = db[n]]_vars

\* C20 happens: the import_csv tool has reported a failure of the count
\* query that followed a bulk copy, and the target table holds a row
C20_Witness ==
    /\ ret.op = "import_csv"
    /\ ret.via = "tool"
    /\ ret.raised
    /\ env.success = FALSE
    /\ Len(trace) = 2
    /\ trace[1].kind = "copy_from" /\ trace[1].ok
    /\ trace[2].kind = "count" /\ ~trace[2].ok
    /\ files[ret.args.file_path].fmt = "csv"
    /\ Len(files[ret.args.file_path].lines) = 2
    /\ Len(db[ret.args.table_name].rows) >= 1

\* the calls of the manager are serialized: at most one thread is inside an
\* operation
Serialized == Cardinality({t \in Threads : threads[t].pc # "idle"}) <= 1

\* C18 as stated: whatever the interleaving, at most one handle is open, and
\* a thread that is about to execute holds the stored handle.
C18_AsStated ==
    /\ Cardinality(live) <= 1
    /\ \A t \in Threads : threads[t].pc = "execute" => threads[t].h = connection

\* C18: as long as the calls of the manager are serialized, at most one
\* handle is open, an operation that finds a handle stored opens none, and
\* every operation executes on the stored handle, which is open.
C18_SerializedSingleHandle ==
    []Serialized =>
        [](/\ Cardinality(live) <= 1
           /\ \A t \in Threads :
                 /\ threads[t].pc = "connect" => (connection = NoneH /\ live = {})
                 /\ threads[t].pc = "execute" =>
                       (threads[t].h = connection /\ live = {connection}))

\* C18 happens: both threads have run list_tables on the first handle, the
\* only one opened
C18_Witness ==
    /\ \A t \in Threads : threads[t].pc = "idle" /\ threads[t].h = 1
    /\ opened = 1
    /\ live = {1}
    /\ connection = 1
    /\ ret.op = "list_tables"
    /\ ~ret.raised
    /\ ret.args.thread = 2
    /\ trace = <<[h |-> 1, kind |-> "list", t |-> "", ok |-> TRUE]>>

\* the last operation made its engine call on a closed handle
ClosedHandleCall ==
    /\ ret.op = "list_tables"
    /\ ret.exc = "Connection Error: connection closed"

\* C19 as stated: whatever the interleaving, no operation makes an engine
\* call on a handle that close has closed.
C19_AsStated == ~ClosedHandleCall

\* C19: as long as the calls of the manager are serialized, no operation
\* makes an engine call on a handle that close has closed, and none fails
\* for a stored reference that was cleared under it.
C19_SerializedNoClosedCall ==
    []Serialized =>
        [](/\ ~ClosedHandleCall
           /\ ret.op \in {"list_tables", "close"} => ~ret.raised
           /\ trace # <<>> => trace[1].ok)

\* C19 happens: the first handle was closed and cleared, and a list_tables
\* after that has run on a second handle, the one stored and open
C19_Witness ==
    /\ \A t \in Threads : threads[t].pc = "idle"
    /\ opened = 2
    /\ live = {2}
    /\ connection = 2
    /\ ret.op = "list_tables"
    /\ ~ret.raised
    /\ trace = <<[h |-> 2, kind |-> "list", t |-> "", ok |-> TRUE]>>

====
